---- MODULE Spec2Model ----
(***************************************************************************)
(* vtt-translator: the WebVTT parser (parse_vtt), the serializer           *)
(* (write_vtt), the translation client (translate_batch) and the           *)
(* per-language batching loop of main().  server.py is not modelled: as    *)
(* written it raises NameError when loaded (the decorators of lines 13-65  *)
(* use app before line 79 defines it), so no route of it ever runs.        *)
(*                                                                         *)
(* A file is the sequence of its lines, as f.read().splitlines() returns   *)
(* them; a written file is the sequence of the "\n"-terminated lines the   *)
(* f.write calls emit.  A Python string that may hold "\n" (a payload      *)
(* text, a translated text) is the non-empty sequence of the lines between *)
(* its "\n" characters: "" is <<"">>, "a\nb" is <<"a", "b">>.              *)
(***************************************************************************)
EXTENDS Integers, Sequences, FiniteSets, TLC

VARIABLES
    file,          \* lines of the input .vtt
    pc,            \* control position
    header,        \* header returned by parse_vtt
    cues,          \* cues returned by parse_vtt
    translations,  \* the dict main() merges batch results into
    out,           \* SpecParse: lines written by write_vtt
    cues2,         \* SpecParse: cues parsed back from out
    apiKey,        \* OPENAI_API_KEY is set
    li,            \* position in args.langs (1-based)
    bi,            \* offset i of the batch loop, range(0, len(cues), 50)
    exch,          \* remote calls of the current language: payload and response
    outputs,       \* language -> lines of the file written for it
    error,         \* the exception that ended the run, "none" if none
    exitCode       \* exit status of the translator process, -1 while running

vars == <<file, pc, header, cues, translations, out, cues2, apiKey, li, bi,
          exch, outputs, error, exitCode>>

\* ---------------------------------------------------------------- bounds

MaxLines == 5      \* SpecParse: lines after the first line of the input
MaxCues == 120     \* SpecRun: cues of the largest input
BatchSize == 50    \* the literal 50 of main()'s batch loop

\* ------------------------------------------------------- line vocabulary

TC1 == "00:00:00.000 --> 00:00:02.000"
TC2 == "00:00:02.500 --> 00:00:04.000 align:start"
TC3 == "00:00:05.000 --> 00:00:06.000"

Digit == <<"0", "1", "2", "3", "4", "5", "6", "7", "8", "9">>

\* str(n) for n >= 0, as the f-string of write_vtt formats the cue number
RECURSIVE Str(_)
Str(n) == IF n < 10 THEN Digit[n + 1] ELSE Str(n \div 10) \o Digit[(n % 10) + 1]

Pad2(n) == IF n < 10 THEN "0" \o Str(n) ELSE Str(n)

\* HH:MM:SS.mmm of second s
Stamp(s) ==
    Pad2(s \div 3600) \o ":" \o Pad2((s % 3600) \div 60) \o ":" \o Pad2(s % 60) \o ".000"

\* the timecode line of the k-th cue (k >= 1) of a generated input
TimecodeOf(k) == Stamp(2 * (k - 1)) \o " --> " \o Stamp(2 * k)

MaxNum == MaxCues + 2

NumberStrings == {Str(n) : n \in 0..MaxNum}

\* the lines of the vocabulary that TIMECODE_RE matches
TimecodeLines == {TC1, TC2, TC3} \cup {TimecodeOf(k) : k \in 1..MaxNum}

\* args.langs
Langs == <<"de-DE", "ja-JP">>

\* the line a stand-in translation of the empty text consists of: the
\* language tag followed by one space
TagOnly(lang) == "[" \o lang \o "] "

\* str.strip() on the lines of the vocabulary: the whitespace-only line and
\* the tag-only lines are the ones with leading or trailing whitespace
Strip(l) ==
    CASE l = "  " -> ""
      [] \E k \in DOMAIN Langs : l = TagOnly(Langs[k]) ->
            "[" \o Langs[CHOOSE k \in DOMAIN Langs : l = TagOnly(Langs[k])] \o "]"
      [] OTHER -> l

IsBlank(l) == Strip(l) = ""

IsDigitLine(l) == Strip(l) \in NumberStrings

IsTimecode(l) == l \in TimecodeLines

\* the first lines of the vocabulary for which startswith("WEBVTT") holds
SignatureLines == {"WEBVTT", "WEBVTT - Title"}

StartsWithWEBVTT(l) == l \in SignatureLines

\* ------------------------------------------------------------------ Cue

Cue(idx, timecode, text_lines) ==
    [idx |-> idx, timecode |-> timecode, text_lines |-> text_lines]

\* "\n".join(text_lines)
JoinLines(text_lines) == IF text_lines = <<>> THEN <<"">> ELSE text_lines

\* ------------------------------------------------------------ parse_vtt

\* while i < len(lines) and lines[i].strip() != "": i += 1   (1-based here)
RECURSIVE SkipNonBlank(_, _)
SkipNonBlank(lines, i) ==
    IF i <= Len(lines) /\ ~IsBlank(lines[i]) THEN SkipNonBlank(lines, i + 1) ELSE i

\* if i < len(lines) and lines[i].strip() == "": i += 1
SkipOneBlank(lines, i) ==
    IF i <= Len(lines) /\ IsBlank(lines[i]) THEN i + 1 ELSE i

\* a faulty variant: the counter is never advanced
NextIdxStuck(idx) == idx

\* idx += 1
NextIdx(idx) == idx + 1

\* if lines[i].strip().isdigit(): i += 1
SkipLabel(lines, i) == IF IsDigitLine(lines[i]) THEN i + 1 ELSE i

\* one iteration of "while i < len(lines):" on the loop state [i, idx, cues];
\* the state is left alone once the loop condition is false
CueLoopStep(lines, st) ==
    IF st.i > Len(lines) THEN st
    ELSE LET j == SkipLabel(lines, st.i) IN
         IF j > Len(lines) THEN [st EXCEPT !.i = j]                  \* break
         ELSE IF ~IsTimecode(lines[j]) THEN [st EXCEPT !.i = j + 1]  \* continue
         ELSE LET e == SkipNonBlank(lines, j + 1)
                  text == SubSeq(lines, j + 1, e - 1)
              IN  [i |-> SkipOneBlank(lines, e),
                   idx |-> NextIdx(st.idx),
                   cues |-> Append(st.cues, Cue(st.idx, lines[j], text))]

\* n iterations of the cue loop
RECURSIVE CueLoop(_, _, _)
CueLoop(lines, st, n) ==
    IF n = 0 THEN st
    ELSE IF n = 1 THEN CueLoopStep(lines, st)
    ELSE LET half == CueLoop(lines, st, n \div 2)
         IN  IF half.i > Len(lines) THEN half
             ELSE CueLoop(lines, half, n - (n \div 2))

\* the position of the first cue block: the header lines up to the first
\* blank line, and that blank line, are skipped
BodyStart(lines) == SkipOneBlank(lines, SkipNonBlank(lines, 2))

\* the cue loop run to its end: every iteration advances i, so len(lines)
\* iterations exhaust it
ParseCues(lines) ==
    CueLoop(lines, [i |-> BodyStart(lines), idx |-> 0, cues |-> <<>>], Len(lines))

IsVtt(lines) == lines # <<>> /\ StartsWithWEBVTT(lines[1])

ParsedHeader(lines) == "WEBVTT"

parse_vtt(lines) ==
    IF ~IsVtt(lines)
    THEN [ok |-> FALSE, header |-> "", cues |-> <<>>]
    ELSE [ok |-> TRUE, header |-> ParsedHeader(lines), cues |-> ParseCues(lines).cues]

\* ------------------------------------------------------------ write_vtt

EmptyMap == [k \in {} |-> <<"">>]

\* a faulty variant: a cue without translation is written with empty text
CueTextBlankFallback(c, tr) == IF c.idx \in DOMAIN tr THEN tr[c.idx] ELSE <<"">>

\* translations.get(c.idx, "\n".join(c.text_lines))
CueText(c, tr) == IF c.idx \in DOMAIN tr THEN tr[c.idx] ELSE JoinLines(c.text_lines)

\* a faulty variant: t + "\n" instead of t + "\n\n", no blank line after a cue
CueBlockNoSeparator(c, tr) == <<Str(c.idx + 1), c.timecode>> \o CueText(c, tr)

\* the three writes of one cue: number, timecode, text and a blank line
CueBlock(c, tr) == <<Str(c.idx + 1), c.timecode>> \o CueText(c, tr) \o <<"">>

\* for c in cues: the blocks of cues lo..hi (1-based), in order
RECURSIVE WriteCues(_, _, _, _)
WriteCues(cs, tr, lo, hi) ==
    IF lo > hi THEN <<>>
    ELSE IF lo = hi THEN CueBlock(cs[lo], tr)
    ELSE LET mid == (lo + hi) \div 2
         IN  WriteCues(cs, tr, lo, mid) \o WriteCues(cs, tr, mid + 1, hi)

\* f.write(header + "\n\n"), then the cue blocks
write_vtt(hdr, cs, tr) == <<hdr, "">> \o WriteCues(cs, tr, 1, Len(cs))

\* ------------------------------------------------- parse, write, parse

BodyLines == {"", "  ", "7", TC1, TC2, "Hello world"}

RECURSIVE SeqsUpTo(_, _)
SeqsUpTo(S, n) ==
    IF n = 0 THEN {<<>>}
    ELSE LET shorter == SeqsUpTo(S, n - 1)
         IN  shorter \cup {Append(q, x) : q \in {r \in shorter : Len(r) = n - 1}, x \in S}

\* inputs that are not VTT files: the empty file, a file without signature
NotVttDocs == {<<>>, <<"Hello world">>, <<"7", TC1>>}

ParseDocs ==
    NotVttDocs \cup {<<h>> \o b : h \in SignatureLines, b \in SeqsUpTo(BodyLines, MaxLines)}

\* translated texts the remote service can return for cue 0
TransTexts == {<<"Hallo Welt">>, <<"Hallo", "", TC3, "Welt">>}

TransMaps == {EmptyMap} \cup {[k \in {0} |-> t] : t \in TransTexts}

Idle ==
    /\ apiKey = TRUE /\ li = 1 /\ bi = 0 /\ exch = <<>>
    /\ outputs = EmptyMap /\ exitCode = -1

InitParse ==
    /\ file \in ParseDocs
    /\ pc = "parse"
    /\ header = "" /\ cues = <<>> /\ translations = EmptyMap
    /\ out = <<>> /\ cues2 = <<>> /\ error = "none"
    /\ Idle

\* header, cues = parse_vtt(path)
ParseInput ==
    /\ pc = "parse"
    /\ parse_vtt(file).ok
    /\ header' = parse_vtt(file).header
    /\ cues' = parse_vtt(file).cues
    /\ pc' = "parsed"
    /\ UNCHANGED <<file, translations, out, cues2, apiKey, li, bi, exch, outputs,
                   error, exitCode>>

\* raise ValueError("Not a VTT file"): nothing catches it
ParseRejects ==
    /\ pc = "parse"
    /\ ~parse_vtt(file).ok
    /\ error' = "ValueError"
    /\ exitCode' = 1
    /\ pc' = "exit"
    /\ UNCHANGED <<file, header, cues, translations, out, cues2, apiKey, li, bi,
                   exch, outputs>>

\* write_vtt(header, cues, tr, out_path)
WriteOutput(tr) ==
    /\ pc = "parsed"
    /\ translations' = tr
    /\ out' = write_vtt(header, cues, tr)
    /\ pc' = "written"
    /\ UNCHANGED <<file, header, cues, cues2, apiKey, li, bi, exch, outputs,
                   error, exitCode>>

\* parse_vtt(out_path) on the file just written
ParseOutput ==
    /\ pc = "written"
    /\ cues2' = parse_vtt(out).cues
    /\ pc' = "reparsed"
    /\ UNCHANGED <<file, header, cues, translations, out, apiKey, li, bi, exch,
                   outputs, error, exitCode>>

NextParse ==
    \/ ParseInput
    \/ ParseRejects
    \/ \E tr \in TransMaps : WriteOutput(tr)
    \/ ParseOutput

SpecParse == InitParse /\ [][NextParse]_vars

\* ------------------------------------------------------- translate_batch

Min(a, b) == IF a < b THEN a ELSE b

\* a faulty variant: cues[i:i+51], a batch one cue too long
BatchSliceOverlong(cs, i) == SubSeq(cs, i + 1, Min(i + BatchSize + 1, Len(cs)))

\* sub = cues[i:i+50]
BatchSlice(cs, i) == SubSeq(cs, i + 1, Min(i + BatchSize, Len(cs)))

\* payload = [{"id": c.idx, "text": "\n".join(c.text_lines)} for c in batch]
Payload(batch) ==
    [j \in 1..Len(batch) |-> [id |-> batch[j].idx, text |-> JoinLines(batch[j].text_lines)]]

\* {int(item["id"]): item["text"] for item in data["items"]}: a later item
\* with the same id replaces an earlier one
ItemsToDict(items) ==
    [k \in {items[j].id : j \in DOMAIN items} |->
        LET last == CHOOSE j \in DOMAIN items :
                        /\ items[j].id = k
                        /\ \A m \in DOMAIN items : items[m].id = k => m <= j
        IN  items[last].text]

\* the exception a response makes translate_batch raise, "none" if it returns
RaisedBy(resp) ==
    CASE resp.kind = "raise" -> "UpstreamError"        \* client.responses.create raises
      [] resp.kind = "notjson" -> "JSONDecodeError"    \* json.loads raises
      [] resp.kind = "noitems" -> "KeyError"           \* data["items"] raises
      [] OTHER -> "none"

translate_batch(resp) ==
    IF RaisedBy(resp) # "none"
    THEN [ok |-> FALSE, dict |-> EmptyMap, error |-> RaisedBy(resp)]
    ELSE [ok |-> TRUE, dict |-> ItemsToDict(resp.items), error |-> "none"]

\* translations.update(m)
Update(t, m) ==
    [k \in DOMAIN t \cup DOMAIN m |-> IF k \in DOMAIN m THEN m[k] ELSE t[k]]

\* ------------------------------------------------------------ the remote

\* a stand-in translation: every line tagged with the target language
Translated(lang, text) == [j \in DOMAIN text |-> "[" \o lang \o "] " \o text[j]]

ExactItems(payload, lang) ==
    [j \in DOMAIN payload |-> [id |-> payload[j].id, text |-> Translated(lang, payload[j].text)]]

Failure(kind) == [kind |-> kind, items |-> <<>>]

Items(items) == [kind |-> "items", items |-> items]

\* what the remote service may answer to a payload of a file of n cues
Responses(payload, lang, n) ==
    {Failure("raise"), Failure("notjson"), Failure("noitems")}
    \cup {Items(ExactItems(payload, lang))}
    \cup {Items(Tail(ExactItems(payload, lang)))}
    \cup {Items(Append(ExactItems(payload, lang), [id |-> x, text |-> <<"[" \o lang \o "] stray">>]))
            : x \in {0, n}}

\* ----------------------------------------------------------------- main

\* the text lines of the k-th cue of a generated input
TextOf(k) ==
    CASE k % 10 = 3 -> <<>>
      [] k % 10 = 7 -> <<">> Line " \o Str(k), "<i>continued</i>">>
      [] OTHER -> <<"Line " \o Str(k)>>

\* the cue blocks lo..hi of a generated input: label, timecode, text, blank
RECURSIVE GenBlocks(_, _)
GenBlocks(lo, hi) ==
    IF lo > hi THEN <<>>
    ELSE IF lo = hi THEN <<Str(lo), TimecodeOf(lo)>> \o TextOf(lo) \o <<"">>
    ELSE LET mid == (lo + hi) \div 2
         IN  GenBlocks(lo, mid) \o GenBlocks(mid + 1, hi)

\* a conformant input of n numbered cues
GenDoc(n) == <<"WEBVTT", "">> \o GenBlocks(1, n)

\* cue counts around the batch boundaries
RunCueCounts ==
    {n \in 0..MaxCues : n < 4 \/ n % BatchSize \in {0, 1, 20, BatchSize - 1} \/ n = MaxCues}

RunDocs == {GenDoc(n) : n \in RunCueCounts} \cup {<<"Hello world">>}

InitRun ==
    /\ file \in RunDocs
    /\ apiKey \in BOOLEAN
    /\ pc = "main"
    /\ header = "" /\ cues = <<>> /\ translations = EmptyMap
    /\ out = <<>> /\ cues2 = <<>> /\ error = "none"
    /\ li = 1 /\ bi = 0 /\ exch = <<>>
    /\ outputs = EmptyMap /\ exitCode = -1

\* if not api_key: print(...); sys.exit(1)
MissingKey ==
    /\ pc = "main"
    /\ ~apiKey
    /\ error' = "SystemExit"
    /\ exitCode' = 1
    /\ pc' = "exit"
    /\ UNCHANGED <<file, header, cues, translations, out, cues2, apiKey, li, bi,
                   exch, outputs>>

\* client = OpenAI(api_key=api_key)
HaveKey ==
    /\ pc = "main"
    /\ apiKey
    /\ pc' = "parse"
    /\ UNCHANGED <<file, header, cues, translations, out, cues2, apiKey, li, bi,
                   exch, outputs, error, exitCode>>

AtLoopHead == pc \in {"parsed", "lang"}

\* for lang in args.langs: translations = {}
NextLang ==
    /\ AtLoopHead
    /\ li <= Len(Langs)
    /\ translations' = EmptyMap
    /\ bi' = 0
    /\ exch' = <<>>
    /\ pc' = "batch"
    /\ UNCHANGED <<file, header, cues, out, cues2, apiKey, li, outputs, error,
                   exitCode>>

\* the language loop is exhausted: main() returns
LangsDone ==
    /\ AtLoopHead
    /\ li > Len(Langs)
    /\ exitCode' = 0
    /\ pc' = "exit"
    /\ UNCHANGED <<file, header, cues, translations, out, cues2, apiKey, li, bi,
                   exch, outputs, error>>

\* translations.update(translate_batch(client, args.model, sub, lang)); an
\* exception of translate_batch is caught nowhere and ends the process
TranslateBatch ==
    /\ pc = "batch"
    /\ bi < Len(cues)
    /\ LET payload == Payload(BatchSlice(cues, bi)) IN
       \E resp \in Responses(payload, Langs[li], Len(cues)) :
           LET got == translate_batch(resp) IN
           /\ exch' = Append(exch, [payload |-> payload, resp |-> resp])
           /\ IF got.ok
              THEN /\ translations' = Update(translations, got.dict)
                   /\ bi' = bi + BatchSize
                   /\ UNCHANGED <<pc, error, exitCode>>
              ELSE /\ error' = got.error
                   /\ exitCode' = 1
                   /\ pc' = "exit"
                   /\ UNCHANGED <<translations, bi>>
    /\ UNCHANGED <<file, header, cues, out, cues2, apiKey, li, outputs>>

\* write_vtt(header, cues, translations, out_path); print("Wrote", out_path)
WriteVtt ==
    /\ pc = "batch"
    /\ bi >= Len(cues)
    /\ outputs' = (Langs[li] :> write_vtt(header, cues, translations)) @@ outputs
    /\ li' = li + 1
    /\ pc' = "lang"
    /\ UNCHANGED <<file, header, cues, translations, out, cues2, apiKey, bi, exch,
                   error, exitCode>>

NextRun ==
    \/ MissingKey
    \/ HaveKey
    \/ ParseInput
    \/ ParseRejects
    \/ NextLang
    \/ LangsDone
    \/ TranslateBatch
    \/ WriteVtt

SpecRun == InitRun /\ [][NextRun]_vars

\* ------------------------------------------------ properties of SpecParse

Parsed == pc \in {"parsed", "written", "reparsed"}

\* the cue blocks of a source, read off its lines without running the cue
\* loop: the body starts after the first blank line, blocks are the runs of
\* non-blank lines, and a cue block is a block that holds a timecode line;
\* its timecode is the first such line
BlankPositions(lines) == {p \in 1..Len(lines) : IsBlank(lines[p])}

FirstBodyLine(lines) ==
    IF BlankPositions(lines) = {} THEN Len(lines) + 1
    ELSE 1 + CHOOSE p \in BlankPositions(lines) : \A q \in BlankPositions(lines) : p <= q

SameBlock(lines, q, p) == \A r \in q..p : ~IsBlank(lines[r])

CueBlockStarts(lines) ==
    {p \in FirstBodyLine(lines)..Len(lines) :
        /\ IsTimecode(lines[p])
        /\ \A q \in FirstBodyLine(lines)..(p - 1) :
              IsTimecode(lines[q]) => ~SameBlock(lines, q, p)}

\* the i-th smallest element of a set of positions
Nth(S, i) == CHOOSE p \in S : Cardinality({q \in S : q < p}) = i - 1

\* C10: for every input that starts with the WEBVTT signature the parser
\* ends (the cue loop is exhausted within len(lines) iterations) without
\* raising, the idx values of the cues are 0, 1, ..., N-1 in order whatever
\* numeric labels the source holds, and the i-th cue carries the timecode
\* line of the i-th cue block of the source; other lines are skipped.
ParserIndexesCueBlocks ==
    /\ (IsVtt(file) /\ pc # "parse") => (Parsed /\ error = "none")
    /\ pc = "parsed" =>
         /\ ParseCues(file).i > Len(file)
         /\ Len(cues) = Cardinality(CueBlockStarts(file))
         /\ \A k \in 1..Len(cues) :
               /\ cues[k].idx = k - 1
               /\ cues[k].timecode = file[Nth(CueBlockStarts(file), k)]

\* two cues, the first under the numeric label 7, after a skipped line
ParserIndexesCueBlocksWitness ==
    /\ pc = "parsed"
    /\ Len(cues) = 2
    /\ \E p \in 1..(Len(file) - 1) : file[p] = "7" /\ file[p + 1] = cues[1].timecode
    /\ cues[1].timecode # cues[2].timecode

\* C7: parsing an input, writing its cues without translations and parsing
\* the written file again gives the same number of cues, in the same order,
\* with the same timecode line and the same text lines.
RoundTripIdentity ==
    (pc = "reparsed" /\ translations = EmptyMap) =>
        /\ Len(cues2) = Len(cues)
        /\ \A k \in 1..Len(cues) :
              /\ cues2[k].timecode = cues[k].timecode
              /\ cues2[k].text_lines = cues[k].text_lines

\* a round trip of two cues, one with text and one without
RoundTripIdentityWitness ==
    /\ pc = "reparsed"
    /\ translations = EmptyMap
    /\ Len(cues) = 2
    /\ cues[1].text_lines # <<>>
    /\ cues[2].text_lines = <<>>
    /\ Len(cues2) = 2

\* C9: whatever text the remote service returns, the written file parses
\* back to the same number of cues, in input order, each with its original
\* timecode line.
TranslationKeepsCues ==
    pc = "reparsed" =>
        /\ Len(cues2) = Len(cues)
        /\ \A k \in 1..Len(cues) : cues2[k].timecode = cues[k].timecode

\* C6: the header the parser returns is the first line of the input as
\* written, and it is the first line of the written file.
HeaderAsWritten ==
    /\ Parsed => header = file[1]
    /\ pc \in {"written", "reparsed"} => out[1] = file[1]

\* -------------------------------------------------- properties of SpecRun

CeilDiv(a, b) == (a + b - 1) \div b

PayloadIds(payload) == {payload[m].id : m \in DOMAIN payload}

ItemIds(resp) == {resp.items[m].id : m \in DOMAIN resp.items}

\* the language whose file was written last, with translations and exch
\* still those of its iteration
JustWritten == pc = "lang"

WrittenLang == Langs[li - 1]

\* the exceptions of a Translation Client call
ClientErrors == {"UpstreamError", "JSONDecodeError", "KeyError"}

MalformedKinds == {"notjson", "noitems"}

\* C1: when a Translation Client call fails for one language, the file of
\* every other requested language is still produced, whether that language
\* comes before or after the failing one.
LanguagesIndependent ==
    (pc = "exit" /\ error \in ClientErrors) =>
        \A k \in 1..Len(Langs) : k # li => Langs[k] \in DOMAIN outputs

\* C2: a batch whose response is not valid JSON or lacks the items list does
\* not abort the run: no exception ends the process, and the file of the
\* language is written once its batches are done.
MalformedBatchRecovered ==
    (\E j \in DOMAIN exch : exch[j].resp.kind \in MalformedKinds) =>
        /\ error = "none"
        /\ exitCode # 1
        /\ pc = "exit" => Langs[li] \in DOMAIN outputs

\* C3: in the file written for a language, a cue whose index is absent from
\* the merged mapping carries its original text lines joined with newlines,
\* and a cue whose index is present carries the mapped text.
FallbackCorrectness ==
    JustWritten =>
        LET back == parse_vtt(outputs[WrittenLang]).cues IN
        /\ Len(back) = Len(cues)
        /\ \A k \in 1..Len(cues) :
              JoinLines(back[k].text_lines) =
                  IF cues[k].idx \in DOMAIN translations
                  THEN translations[cues[k].idx]
                  ELSE JoinLines(cues[k].text_lines)

\* a file written with a cue of non-empty text that the response omitted
\* next to a cue that was translated
FallbackCorrectnessWitness ==
    /\ JustWritten
    /\ \E k \in 1..Len(cues) :
          /\ cues[k].idx \notin DOMAIN translations
          /\ cues[k].text_lines # <<>>
    /\ \E k \in 1..Len(cues) : cues[k].idx \in DOMAIN translations

\* C4: a cue with empty text_lines is an item of no payload sent to the
\* Translation Client, and its text in every written file is empty.
EmptyCueNeverSent ==
    /\ \A j \in DOMAIN exch : \A m \in DOMAIN exch[j].payload :
          cues[exch[j].payload[m].id + 1].text_lines # <<>>
    /\ JustWritten =>
          \A k \in 1..Len(cues) :
              cues[k].text_lines = <<>> => CueText(cues[k], translations) = <<"">>

\* C5: the text the merged mapping holds for a cue is a text that the
\* response to the cue's own batch gave for its index; an item of another
\* batch's response does not change it.
ExtraIdsIgnored ==
    \A k \in 1..Len(cues) :
        cues[k].idx \in DOMAIN translations =>
            \E j \in DOMAIN exch :
                /\ cues[k].idx \in PayloadIds(exch[j].payload)
                /\ \E m \in DOMAIN exch[j].resp.items :
                      /\ exch[j].resp.items[m].id = cues[k].idx
                      /\ exch[j].resp.items[m].text = translations[cues[k].idx]

\* C8: the batches of a language are the contiguous slices of at most 50
\* cues in cue order, every cue index is in exactly one batch, ceil(N/50)
\* calls are made (120 cues: 50, 50, 20), and when every response holds
\* exactly the ids sent the merged mapping's keys are 0..N-1.
BatchJoinCorrectness ==
    JustWritten =>
        LET N == Len(cues) IN
        /\ Len(exch) = CeilDiv(N, 50)
        /\ \A j \in DOMAIN exch :
              /\ Len(exch[j].payload) \in 1..50
              /\ \A m \in DOMAIN exch[j].payload :
                    exch[j].payload[m].id = 50 * (j - 1) + (m - 1)
        /\ \A k \in 0..(N - 1) :
              Cardinality({j \in DOMAIN exch : k \in PayloadIds(exch[j].payload)}) = 1
        /\ N = 120 => [j \in DOMAIN exch |-> Len(exch[j].payload)] = <<50, 50, 20>>
        /\ (\A j \in DOMAIN exch :
                /\ exch[j].resp.kind = "items"
                /\ ItemIds(exch[j].resp) = PayloadIds(exch[j].payload))
            => DOMAIN translations = 0..(N - 1)

\* 120 cues translated in three batches that each returned the ids sent
BatchJoinCorrectnessWitness ==
    /\ JustWritten
    /\ Len(cues) = 120
    /\ Len(exch) = 3
    /\ \A j \in DOMAIN exch : ItemIds(exch[j].resp) = PayloadIds(exch[j].payload)
    /\ DOMAIN translations = 0..119

====
